---- MODULE Spec2Model ----
(***************************************************************************)
(* The Market program of src/src/lib.rs: one global `MARKET`, the entry    *)
(* points init(), handle() and state(), and the five operations of         *)
(* `impl Market`.  Wire types are those of src/io/src/lib.rs.              *)
(*                                                                         *)
(* u128 is modelled as an unsigned integer of Width bits.  HashMaps are    *)
(* functions whose domain is the set of present keys.  Option<T> is a      *)
(* sequence of length 0 (None) or 1 (Some).                                *)
(***************************************************************************)
EXTENDS Integers, Sequences, FiniteSets, TLC

\* ------------------------------------------------------------------ bounds
Width == 3
MaxRequests == 3

Modulus == 2 ^ Width
U128Max == Modulus - 1
U128 == 0 .. U128Max

\* exec::env_vars().existential_deposit: the host's minimum transferable
\* value (the tests use 10_000_000_000_000; scaled to the modelled width).
ExistentialDeposit == 2

\* ------------------------------------------------------------------ inputs
ADMIN == 100
USERS == {10}
ActorIds == {ADMIN} \cup USERS
Names == {"Product_#1", "Product_#2"}
Addresses == {"delivery_address"}
Keys == {"public key", "new key"}
\* u128 quantities and prices: none, one, the existential deposit, the largest.
Amounts == {0, 1, ExistentialDeposit, U128Max}

\* The value attached to a message is itself a value transfer made by the
\* host: it is 0 or at least the existential deposit.
Values == {0, ExistentialDeposit, ExistentialDeposit + 1, U128Max}

None == << >>
Some(x) == << x >>
OptionU128 == {None} \cup {Some(v) : v \in Amounts}

\* ------------------------------------------------------------- wire types
Config(public_key) == [public_key |-> public_key]
ProductData(quantity, price) == [quantity |-> quantity, price |-> price]
PurchaseData(name, quantity, delivery_address) ==
    [name |-> name, quantity |-> quantity, status |-> "PaidFor",
     delivery_address |-> delivery_address]

NoEvent == [type |-> "none"]
Ok(event) == [ok |-> TRUE, event |-> event, error |-> "none"]
Err(error) == [ok |-> FALSE, event |-> NoEvent, error |-> error]

MarketError ==
    {"NotAdmin", "AlreadyExists", "ThereIsNoSuchName", "ZeroQuantity",
     "PriceLessThanExistentialDeposit", "InsufficientValue", "QuantityExceeded"}

\* -------------------------------------------------------------- HashMap
contains_key(map, k) == k \in DOMAIN map
insert(map, k, v) == [x \in DOMAIN map \cup {k} |-> IF x = k THEN v ELSE map[x]]
remove(map, k) == [x \in DOMAIN map \ {k} |-> map[x]]
EmptyMap == [x \in {} |-> 0]
\* into_iter().collect(): the entries as pairs, in no particular order.
into_iter_collect(map) == {<<k, map[k]>> : k \in DOMAIN map}

\* ------------------------------------------------------------------ state
VARIABLES
    MARKET,          \* static mut MARKET: Option<Market>
    overflow_checks, \* build profile: does u128 `*` panic on overflow (TRUE) or wrap
    pc,              \* "idle", "received" (a message is queued), "executed"
    msg,             \* the message being processed: entry point, source, value, payload
    out,             \* what its execution produced: reply or panic, transfers sent
    before,          \* MARKET when the execution started
    bought,          \* per buyer, the successful Buy calls in call order
    retained,        \* value attached to Buy messages minus value sent out
    due,             \* sum of price * quantity (unbounded product) of successful Buys
    interval,        \* per product: stock when it was last listed or restocked, and
                     \* the quantities of the purchase records appended since
    nreq             \* number of messages processed

vars ==
    <<MARKET, overflow_checks, pc, msg, out, before, bought, retained, due, interval, nreq>>

Market(products, purchases, admin, config) ==
    [products |-> products, purchases |-> purchases, admin |-> admin, config |-> config]

\* ------------------------------------------------------------ impl Market
\* Each operation returns the Market after the call and the Result.
Return(market, result) == [market |-> market, result |-> result]

not_admin_Inverted(msg_source, market) == msg_source = market.admin
\* if msg_source != self.admin
not_admin(msg_source, market) == msg_source # market.admin

already_exists_Never(products, name) == FALSE
\* if self.products.contains_key(&name)
already_exists(products, name) == contains_key(products, name)

price_below_deposit_Inclusive(price) == price <= ExistentialDeposit
\* if price < exec::env_vars().existential_deposit
price_below_deposit(price) == price < ExistentialDeposit

add_product(market, msg_source, name, quantity, price) ==
    IF not_admin(msg_source, market) THEN Return(market, Err("NotAdmin"))
    ELSE IF already_exists(market.products, name)
        THEN Return(market, Err("AlreadyExists"))
    ELSE IF price_below_deposit(price)
        THEN Return(market, Err("PriceLessThanExistentialDeposit"))
    ELSE Return(
        [market EXCEPT !.products = insert(@, name, ProductData(quantity, price))],
        Ok([type |-> "ProductAdded", name |-> name, quantity |-> quantity, price |-> price]))

patch_OrDefault(field, supplied) == IF supplied # None THEN supplied[1] ELSE 0
\* if let Some(v) = supplied { field = v; }
patch(field, supplied) == IF supplied # None THEN supplied[1] ELSE field

update_product_info(market, msg_source, name, quantity, price) ==
    IF not_admin(msg_source, market) THEN Return(market, Err("NotAdmin"))
    ELSE IF ~contains_key(market.products, name)
        THEN Return(market, Err("ThereIsNoSuchName"))
    ELSE LET old == market.products[name]
             q == patch(old.quantity, quantity)
             p == patch(old.price, price)
         IN Return(
             [market EXCEPT !.products = insert(@, name, ProductData(q, p))],
             Ok([type |-> "ProductInfoUpdated", name |-> name,
                 quantity |-> quantity, price |-> price]))

update_config(market, msg_source, config) ==
    IF not_admin(msg_source, market) THEN Return(market, Err("NotAdmin"))
    ELSE Return([market EXCEPT !.config = config],
                Ok([type |-> "ConfigUpdated", config |-> config]))

delete_product_PurgesHistory(market, msg_source, name) ==
    IF not_admin(msg_source, market) THEN Return(market, Err("NotAdmin"))
    ELSE IF ~contains_key(market.products, name)
        THEN Return(market, Err("ThereIsNoSuchName"))
    ELSE LET Keep(purchase) == purchase.name # name
         IN Return([market EXCEPT
                        !.products = remove(@, name),
                        !.purchases = [a \in DOMAIN @ |-> SelectSeq(@[a], Keep)]],
                    Ok([type |-> "ProductDeleted", name |-> name]))

delete_product(market, msg_source, name) ==
    IF not_admin(msg_source, market) THEN Return(market, Err("NotAdmin"))
    ELSE IF ~contains_key(market.products, name)
        THEN Return(market, Err("ThereIsNoSuchName"))
    ELSE Return([market EXCEPT !.products = remove(@, name)],
                Ok([type |-> "ProductDeleted", name |-> name]))

\* send_value: nothing for 0; otherwise msg::send_with_gas(..).expect(..).
\* The host refuses a transfer below the existential deposit, and the
\* expect() then panics.
Transfer(destination, value) == [destination |-> destination, value |-> value]
send_value_NoZeroCheck(destination, value) ==
    IF value # 0 /\ value < ExistentialDeposit THEN [sent |-> << >>, panic |-> TRUE]
    ELSE [sent |-> << Transfer(destination, value) >>, panic |-> FALSE]
send_value(destination, value) ==
    IF value = 0 THEN [sent |-> << >>, panic |-> FALSE]
    ELSE IF value < ExistentialDeposit THEN [sent |-> << >>, panic |-> TRUE]
    ELSE [sent |-> << Transfer(destination, value) >>, panic |-> FALSE]

\* price * quantity on u128: wraps, or panics when the build checks overflow.
mul(a, b, checked) ==
    IF a * b > U128Max
        THEN [value |-> (a * b) % Modulus, panic |-> checked]
        ELSE [value |-> a * b, panic |-> FALSE]

zero_quantity(quantity) == quantity = 0

quantity_exceeded_OffByOne(quantity, product_data) == quantity > product_data.quantity + 1
quantity_exceeded(quantity, product_data) == quantity > product_data.quantity

change_due_Full(msg_value, total_payment) == msg_value
\* the overpayment handed to send_value
change_due(msg_value, total_payment) == msg_value - total_payment

push_purchase_Overwrite(purchases, msg_source, new_purchase) ==
    insert(purchases, msg_source, << new_purchase >>)
\* self.purchases.entry(msg_source).and_modify(push).or_insert(vec![..])
push_purchase(purchases, msg_source, new_purchase) ==
    IF contains_key(purchases, msg_source)
        THEN insert(purchases, msg_source, Append(purchases[msg_source], new_purchase))
        ELSE insert(purchases, msg_source, << new_purchase >>)

take_stock_ByOne(products, name, quantity) ==
    insert(products, name, ProductData(products[name].quantity - 1, products[name].price))
take_stock_RemovesSoldOut(products, name, quantity) ==
    IF products[name].quantity = quantity THEN remove(products, name)
    ELSE insert(products, name,
                ProductData(products[name].quantity - quantity, products[name].price))
\* product_data.quantity -= quantity
take_stock(products, name, quantity) ==
    insert(products, name,
           ProductData(products[name].quantity - quantity, products[name].price))

\* buy also returns the transfers it issued and whether it panicked.
BuyReturn(market, result, sent, panic) ==
    [market |-> market, result |-> result, sent |-> sent, panic |-> panic]

buy(market, msg_source, msg_value, name, quantity, delivery_address, checked) ==
    IF ~contains_key(market.products, name)
        THEN BuyReturn(market, Err("ThereIsNoSuchName"), << >>, FALSE)
    ELSE LET product_data == market.products[name] IN
    IF zero_quantity(quantity) THEN BuyReturn(market, Err("ZeroQuantity"), << >>, FALSE)
    ELSE IF quantity_exceeded(quantity, product_data)
        THEN BuyReturn(market, Err("QuantityExceeded"), << >>, FALSE)
    ELSE LET total_payment == mul(product_data.price, quantity, checked) IN
    IF total_payment.panic THEN BuyReturn(market, Err("none"), << >>, TRUE)
    ELSE IF msg_value < total_payment.value
        THEN BuyReturn(market, Err("InsufficientValue"), << >>, FALSE)
    ELSE LET change == IF msg_value > total_payment.value
                           THEN send_value(msg_source,
                                           change_due(msg_value, total_payment.value))
                           ELSE [sent |-> << >>, panic |-> FALSE] IN
    IF change.panic THEN BuyReturn(market, Err("none"), << >>, TRUE)
    ELSE LET new_purchase == PurchaseData(name, quantity, delivery_address)
         IN BuyReturn(
             [market EXCEPT
                 !.products = take_stock(@, name, quantity),
                 !.purchases = push_purchase(@, msg_source, new_purchase)],
             Ok([type |-> "Bought", buyer |-> msg_source, name |-> name,
                 quantity |-> quantity]),
             change.sent, FALSE)

\* ------------------------------------------------------------ entry points
\* enum MarketAction, one set per variant
AddProductActions ==
    [type : {"AddProduct"}, name : Names, quantity : Amounts, price : Amounts]
UpdateProductInfoActions ==
    [type : {"UpdateProductInfo"}, name : Names, quantity : OptionU128, price : OptionU128]
UpdateConfigActions == [type : {"UpdateConfig"}, config : {Config(k) : k \in Keys}]
DeleteProductActions == [type : {"DeleteProduct"}, name : Names]
BuyActions ==
    [type : {"Buy"}, name : Names, quantity : Amounts, delivery_address : Addresses]

\* enum StateQuery
StateQuery ==
    [type : {"All", "GetProducts", "GetPurchases"}]
    \cup [type : {"GetActorPurchases"}, actor_id : ActorIds]

\* What one execution of an entry point leaves behind: the global, whether it
\* replied or panicked, the reply, and the value transfers it sent.
Replied(global, reply, sent) ==
    [MARKET |-> global, outcome |-> "reply", reply |-> reply, sent |-> sent]
\* Every panic of the program happens before its first write to MARKET.
Panicked(global) ==
    [MARKET |-> global, outcome |-> "panic", reply |-> Err("none"), sent |-> << >>]

refund_on_error_Never(result, msg_source, msg_value) == [sent |-> << >>, panic |-> FALSE]
\* if result.is_err() { send_value(msg_source, msg_value); }
refund_on_error(result, msg_source, msg_value) ==
    IF result.ok THEN [sent |-> << >>, panic |-> FALSE]
    ELSE send_value(msg_source, msg_value)

handle(global, action, msg_source, msg_value, checked) ==
    IF global = None THEN Panicked(global)
    ELSE LET market == global[1] IN
    CASE action.type = "AddProduct" ->
            LET r == add_product(market, msg_source, action.name, action.quantity,
                                 action.price)
            IN Replied(Some(r.market), r.result, << >>)
      [] action.type = "UpdateProductInfo" ->
            LET r == update_product_info(market, msg_source, action.name,
                                         action.quantity, action.price)
            IN Replied(Some(r.market), r.result, << >>)
      [] action.type = "UpdateConfig" ->
            LET r == update_config(market, msg_source, action.config)
            IN Replied(Some(r.market), r.result, << >>)
      [] action.type = "DeleteProduct" ->
            LET r == delete_product(market, msg_source, action.name)
            IN Replied(Some(r.market), r.result, << >>)
      [] action.type = "Buy" ->
            LET r == buy(market, msg_source, msg_value, action.name, action.quantity,
                         action.delivery_address, checked)
            IN IF r.panic THEN Panicked(global)
               ELSE LET refund == refund_on_error(r.result, msg_source, msg_value)
                    IN IF refund.panic THEN Panicked(global)
                       ELSE Replied(Some(r.market), r.result, r.sent \o refund.sent)

\* impl From<Market> for State
State(market) ==
    [products |-> into_iter_collect(market.products),
     purchases |-> into_iter_collect(market.purchases),
     admin |-> market.admin, config |-> market.config]

\* state(): MARKET.take() moves the Market out of the global and leaves None.
state(global, query) ==
    IF global = None THEN Panicked(global)
    ELSE LET market == global[1] IN
    CASE query.type = "All" ->
            Replied(None, [type |-> "All", value |-> State(market)], << >>)
      [] query.type = "GetProducts" ->
            Replied(None, [type |-> "Products",
                           value |-> into_iter_collect(market.products)], << >>)
      [] query.type = "GetPurchases" ->
            Replied(None, [type |-> "Purchases",
                           value |-> into_iter_collect(market.purchases)], << >>)
      [] query.type = "GetActorPurchases" ->
            Replied(None, [type |-> "ActorPurchases",
                           value |-> IF contains_key(market.purchases, query.actor_id)
                                         THEN Some(market.purchases[query.actor_id])
                                         ELSE None], << >>)

\* ---------------------------------------------------------- bookkeeping
RECURSIVE SumSent(_)
SumSent(sent) == IF sent = << >> THEN 0 ELSE Head(sent).value + SumSent(Tail(sent))

Call(name, quantity, delivery_address) ==
    [name |-> name, quantity |-> quantity, delivery_address |-> delivery_address]

IsBought(o) == o.outcome = "reply" /\ o.reply.ok /\ o.reply.event.type = "Bought"

\* The quantities of the records naming `name` in a list of purchases.
RECURSIVE Quantities(_, _)
Quantities(purchases, name) ==
    IF purchases = << >> THEN 0
    ELSE (IF Head(purchases).name = name THEN Head(purchases).quantity ELSE 0)
         + Quantities(Tail(purchases), name)

\* The records a call appended to the history of `actor`.
Appended(old, new, actor) ==
    LET was == IF contains_key(old.purchases, actor) THEN old.purchases[actor] ELSE << >>
        is == IF contains_key(new.purchases, actor) THEN new.purchases[actor] ELSE << >>
    IN IF Len(is) > Len(was) THEN SubSeq(is, Len(was) + 1, Len(is)) ELSE << >>

RECURSIVE AppendedQuantities(_, _, _, _)
AppendedQuantities(old, new, actors, name) ==
    IF actors = {} THEN 0
    ELSE LET a == CHOOSE x \in actors : TRUE
         IN Quantities(Appended(old, new, a), name)
            + AppendedQuantities(old, new, actors \ {a}, name)

\* A product's interval starts anew when AddProduct lists it, when
\* UpdateProductInfo overwrites its quantity and when DeleteProduct removes it.
Restocks(o, action, name) ==
    /\ o.outcome = "reply"
    /\ o.reply.ok
    /\ action.name = name
    /\ \/ action.type \in {"AddProduct", "DeleteProduct"}
       \/ action.type = "UpdateProductInfo" /\ action.quantity # None

Message(entry, source, value, payload) ==
    [entry |-> entry, source |-> source, value |-> value, payload |-> payload]
NoMessage == Message("none", 0, 0, [type |-> "none"])
NoOutput == [MARKET |-> None, outcome |-> "none", reply |-> Err("none"), sent |-> << >>]

\* ------------------------------------------------------------------- Init
\* init(): admin is the sender of the init message, config its payload.
Init ==
    /\ MARKET = Some(Market(EmptyMap, EmptyMap, ADMIN, Config("public key")))
    /\ overflow_checks \in BOOLEAN
    /\ pc = "idle"
    /\ msg = NoMessage
    /\ out = NoOutput
    /\ before = None
    /\ bought = [a \in ActorIds |-> << >>]
    /\ retained = 0
    /\ due = 0
    /\ interval = [n \in Names |-> [opening |-> 0, sold |-> 0]]
    /\ nreq = 0

\* ---------------------------------------------------------------- actions
\* The host takes the next message from the queue: one at a time.
Receive ==
    /\ pc = "idle"
    /\ nreq < MaxRequests
    /\ \E source \in ActorIds :
        \* Only Buy reads msg::value(); the other requests are sent without value.
        \/ \E a \in AddProductActions : msg' = Message("handle", source, 0, a)
        \/ \E a \in UpdateProductInfoActions : msg' = Message("handle", source, 0, a)
        \/ \E a \in UpdateConfigActions : msg' = Message("handle", source, 0, a)
        \/ \E a \in DeleteProductActions : msg' = Message("handle", source, 0, a)
        \/ \E a \in BuyActions, value \in Values :
                msg' = Message("handle", source, value, a)
        \/ \E q \in StateQuery : msg' = Message("state", source, 0, q)
    /\ pc' = "received"
    /\ UNCHANGED <<MARKET, overflow_checks, out, before, bought, retained, due,
                   interval, nreq>>

\* handle() on the queued message, from msg::load() to msg::reply().
Handle(type) ==
    /\ pc = "received"
    /\ msg.entry = "handle"
    /\ msg.payload.type = type
    /\ LET o == handle(MARKET, msg.payload, msg.source, msg.value, overflow_checks) IN
        /\ MARKET' = o.MARKET
        /\ out' = o
        /\ bought' = IF IsBought(o)
                         THEN [bought EXCEPT ![msg.source] =
                                 Append(@, Call(msg.payload.name, msg.payload.quantity,
                                                msg.payload.delivery_address))]
                         ELSE bought
        \* A message that panics is rolled back by the host together with
        \* its value; one that is replied to leaves its value with the program.
        /\ retained' = IF o.outcome = "reply"
                           THEN retained + msg.value - SumSent(o.sent)
                           ELSE retained
        /\ due' = IF IsBought(o)
                      THEN due + MARKET[1].products[msg.payload.name].price
                                 * msg.payload.quantity
                      ELSE due
        /\ interval' =
             IF MARKET = None \/ msg.payload.type = "UpdateConfig" THEN interval
             ELSE [n \in Names |->
                     IF Restocks(o, msg.payload, n)
                         THEN [opening |-> IF contains_key(o.MARKET[1].products, n)
                                               THEN o.MARKET[1].products[n].quantity
                                               ELSE 0,
                               sold |-> 0]
                         ELSE [interval[n] EXCEPT
                                 !.sold = @ + AppendedQuantities(MARKET[1], o.MARKET[1],
                                                                 ActorIds, n)]]
    /\ before' = MARKET
    /\ pc' = "executed"
    /\ UNCHANGED <<overflow_checks, msg, nreq>>

AddProduct == Handle("AddProduct")

UpdateProductInfo == Handle("UpdateProductInfo")

UpdateConfig == Handle("UpdateConfig")

DeleteProduct == Handle("DeleteProduct")

Buy == Handle("Buy")

\* state() on the queued query.
ReadState ==
    /\ pc = "received"
    /\ msg.entry = "state"
    /\ LET o == state(MARKET, msg.payload) IN
        /\ MARKET' = o.MARKET
        /\ out' = o
    /\ before' = MARKET
    /\ pc' = "executed"
    /\ UNCHANGED <<overflow_checks, msg, bought, retained, due, interval, nreq>>

\* The host delivers the reply and the transfers; the next message may come.
Dispatch ==
    /\ pc = "executed"
    /\ pc' = "idle"
    /\ msg' = NoMessage
    /\ out' = NoOutput
    /\ before' = None
    /\ nreq' = nreq + 1
    /\ UNCHANGED <<MARKET, overflow_checks, bought, retained, due, interval>>

Next ==
    \/ Receive
    \/ AddProduct
    \/ UpdateProductInfo
    \/ UpdateConfig
    \/ DeleteProduct
    \/ Buy
    \/ ReadState
    \/ Dispatch

Spec == Init /\ [][Next]_vars

TypeOK ==
    /\ MARKET = None \/ (Len(MARKET) = 1 /\ MARKET[1].admin \in ActorIds)
    /\ overflow_checks \in BOOLEAN
    /\ pc \in {"idle", "received", "executed"}
    /\ retained \in Nat
    /\ nreq \in 0 .. MaxRequests

\* ------------------------------------------------------------- properties
\* The state right after an entry point ran on the queued message.
Executed == pc = "executed"
\* handle() ran a request of the given kind on a constructed Market.
Handled(type) ==
    /\ Executed
    /\ msg.entry = "handle"
    /\ msg.payload.type = type
    /\ before # None
AdminOnly == {"AddProduct", "UpdateProductInfo", "UpdateConfig", "DeleteProduct"}
HandledAdminOnly ==
    /\ Executed
    /\ msg.entry = "handle"
    /\ msg.payload.type \in AdminOnly
    /\ before # None
Failed(error) == out.outcome = "reply" /\ out.reply = Err(error)
BuyFailures == {"ThereIsNoSuchName", "ZeroQuantity", "QuantityExceeded", "InsufficientValue"}
BoughtOk == Handled("Buy") /\ IsBought(out)
\* The product a Buy names, as it was when the request arrived.
Listed == contains_key(before[1].products, msg.payload.name)
Product == before[1].products[msg.payload.name]
\* price * quantity as a mathematical integer
TrueTotal == Product.price * msg.payload.quantity
history(market, actor) ==
    IF contains_key(market.purchases, actor) THEN market.purchases[actor] ELSE << >>
IsPrefix(s, t) == Len(s) <= Len(t) /\ SubSeq(t, 1, Len(s)) = s

\* C1: a caller other than admin gets NotAdmin from AddProduct,
\* UpdateProductInfo, UpdateConfig and DeleteProduct, whatever the arguments,
\* and catalog, histories and config stay as they were.
C1_NotAdminRejected ==
    (HandledAdminOnly /\ msg.source # before[1].admin)
        => (Failed("NotAdmin") /\ MARKET = before)

C1_Witness ==
    /\ Handled("DeleteProduct")
    /\ msg.source # before[1].admin
    /\ contains_key(before[1].products, msg.payload.name)
    /\ Failed("NotAdmin")
    /\ MARKET = before

\* C2: a successful Buy of Q units of a product with stock S has 1 <= Q <= S
\* and leaves stock S - Q; every stock in every reachable state is a
\* non-negative integer.
C2_StockConserved ==
    /\ BoughtOk =>
        /\ 1 <= msg.payload.quantity
        /\ msg.payload.quantity <= Product.quantity
        /\ MARKET[1].products[msg.payload.name].quantity
             = Product.quantity - msg.payload.quantity
    /\ MARKET # None =>
        \A n \in DOMAIN MARKET[1].products : MARKET[1].products[n].quantity \in U128

C2_Witness ==
    /\ BoughtOk
    /\ Product.quantity > msg.payload.quantity
    /\ MARKET[1].products[msg.payload.name].quantity
         = Product.quantity - msg.payload.quantity

\* C3: a Buy of Q units, 1 <= Q <= stock, of a listed product of price P with
\* attached value V < P*Q fails with InsufficientValue, and stock and
\* histories are unchanged.
C3_UnderpaymentRejected ==
    (/\ Handled("Buy")
     /\ Listed
     /\ 1 <= msg.payload.quantity
     /\ msg.payload.quantity <= Product.quantity
     /\ msg.value < TrueTotal)
        => (Failed("InsufficientValue") /\ MARKET = before)

\* C4: a Buy that succeeds with V > price * quantity issues exactly one
\* transfer, to the caller, of V - price * quantity.
C4_ExactChange ==
    (BoughtOk /\ msg.value > TrueTotal)
        => out.sent = << Transfer(msg.source, msg.value - TrueTotal) >>

C4_Witness ==
    /\ BoughtOk
    /\ TrueTotal > 0
    /\ msg.value > TrueTotal
    /\ out.sent = << Transfer(msg.source, msg.value - TrueTotal) >>

\* C5: a Buy that fails with ThereIsNoSuchName, ZeroQuantity, QuantityExceeded
\* or InsufficientValue changes nothing of the Market, and the handler sends
\* the whole attached value V back to the caller and nothing else (for V = 0
\* there is nothing to send).
C5_FailedBuyRefunded ==
    (Handled("Buy") /\ out.outcome = "reply" /\ ~out.reply.ok)
        => /\ out.reply.error \in BuyFailures
           /\ MARKET = before
           /\ out.sent = IF msg.value = 0 THEN << >>
                         ELSE << Transfer(msg.source, msg.value) >>

C5_Witness ==
    /\ Handled("Buy")
    /\ Failed("InsufficientValue")
    /\ msg.value > 0
    /\ MARKET = before
    /\ out.sent = << Transfer(msg.source, msg.value) >>

\* C6: Buy never answers Bought when the attached value is below the
\* mathematical product price * quantity.
C6_NoSilentWrap == BoughtOk => msg.value >= TrueTotal

\* C7: each buyer's history is the list of that buyer's successful Buy calls
\* in call order, as PaidFor purchases; every request leaves each history a
\* prefix of the history after it; a Buy leaves the other buyers' histories
\* as they were.
C7_HistoryAppendOnly ==
    /\ MARKET # None =>
        \A a \in ActorIds :
            history(MARKET[1], a) =
                [i \in 1 .. Len(bought[a]) |->
                    PurchaseData(bought[a][i].name, bought[a][i].quantity,
                                 bought[a][i].delivery_address)]
    /\ (Executed /\ msg.entry = "handle" /\ before # None) =>
        \A a \in ActorIds :
            /\ IsPrefix(history(before[1], a), history(MARKET[1], a))
            /\ (a # msg.source \/ ~IsBought(out))
                   => history(MARKET[1], a) = history(before[1], a)

C7_Witness ==
    /\ BoughtOk
    /\ Len(history(MARKET[1], msg.source)) = 2
    /\ history(MARKET[1], msg.source)[1].quantity
         # history(MARKET[1], msg.source)[2].quantity
    /\ history(MARKET[1], msg.source)[2].quantity = msg.payload.quantity

\* C8: a state query leaves the Market as it was.
C8_QueryLeavesMarket == (Executed /\ msg.entry = "state") => MARKET = before

\* C9: the value the program retains (attached to Buy requests, minus what it
\* sent out) is the sum of price * quantity over the successful Buys, at the
\* price stored when each was made.
C9_RetainedIsDue == retained = due

\* C10: every request handled on a constructed Market is answered with a
\* success event or one of the seven error kinds; the handler never aborts.
C10_AlwaysTypedReply ==
    (Executed /\ msg.entry = "handle" /\ before # None)
        => /\ out.outcome = "reply"
           /\ out.reply.ok \/ out.reply.error \in MarketError


\* C11: AddProduct by admin with a name already in the catalog fails with
\* AlreadyExists, whatever quantity and price it carries, and the existing
\* product and the rest of the Market stay as they were.
C11_DuplicateRejected ==
    (Handled("AddProduct") /\ msg.source = before[1].admin /\ Listed)
        => (Failed("AlreadyExists") /\ MARKET = before)

C11_Witness ==
    /\ Handled("AddProduct")
    /\ msg.source = before[1].admin
    /\ Listed
    /\ msg.payload.quantity # Product.quantity
    /\ msg.payload.price # Product.price
    /\ msg.payload.price >= ExistentialDeposit
    /\ Failed("AlreadyExists")
    /\ MARKET[1].products[msg.payload.name] = Product


\* The catalog after the call agrees with the catalog before it on every
\* name outside `names`.
SameProductsExcept(names) ==
    /\ DOMAIN MARKET[1].products \ names = DOMAIN before[1].products \ names
    /\ \A n \in DOMAIN before[1].products \ names :
           MARKET[1].products[n] = before[1].products[n]
SameRest ==
    /\ MARKET[1].purchases = before[1].purchases
    /\ MARKET[1].admin = before[1].admin
    /\ MARKET[1].config = before[1].config

\* C12: AddProduct by admin with a name not in the catalog fails with
\* PriceLessThanExistentialDeposit, changing nothing, exactly when price is
\* below the threshold; otherwise it inserts Product{quantity, price} and
\* replies ProductAdded with name, quantity and price as given.
C12_PriceFloorOnAdd ==
    (Handled("AddProduct") /\ msg.source = before[1].admin /\ ~Listed)
        => IF msg.payload.price < ExistentialDeposit
               THEN Failed("PriceLessThanExistentialDeposit") /\ MARKET = before
               ELSE /\ out.outcome = "reply"
                    /\ out.reply.ok
                    /\ out.reply.event =
                         [type |-> "ProductAdded", name |-> msg.payload.name,
                          quantity |-> msg.payload.quantity, price |-> msg.payload.price]
                    /\ contains_key(MARKET[1].products, msg.payload.name)
                    /\ MARKET[1].products[msg.payload.name].quantity = msg.payload.quantity
                    /\ MARKET[1].products[msg.payload.name].price = msg.payload.price
                    /\ SameProductsExcept({msg.payload.name})
                    /\ SameRest

C12_Witness ==
    /\ Handled("AddProduct")
    /\ msg.source = before[1].admin
    /\ ~Listed
    /\ msg.payload.price = ExistentialDeposit
    /\ out.reply.ok
    /\ MARKET[1].products[msg.payload.name].price = ExistentialDeposit
    /\ DOMAIN before[1].products # {}


\* C13: UpdateProductInfo by admin on a listed name overwrites the quantity
\* when one is supplied and leaves it otherwise, and likewise the price;
\* nothing else changes and the reply echoes the name and the two optional
\* inputs as given.  On an absent name it fails with ThereIsNoSuchName and
\* changes nothing.
C13_PartialUpdate ==
    (Handled("UpdateProductInfo") /\ msg.source = before[1].admin)
        => IF Listed
               THEN /\ out.outcome = "reply"
                    /\ out.reply.ok
                    /\ out.reply.event =
                         [type |-> "ProductInfoUpdated", name |-> msg.payload.name,
                          quantity |-> msg.payload.quantity, price |-> msg.payload.price]
                    /\ contains_key(MARKET[1].products, msg.payload.name)
                    /\ MARKET[1].products[msg.payload.name].quantity =
                         IF msg.payload.quantity = None THEN Product.quantity
                         ELSE msg.payload.quantity[1]
                    /\ MARKET[1].products[msg.payload.name].price =
                         IF msg.payload.price = None THEN Product.price
                         ELSE msg.payload.price[1]
                    /\ SameProductsExcept({msg.payload.name})
                    /\ SameRest
               ELSE Failed("ThereIsNoSuchName") /\ MARKET = before

C13_Witness ==
    /\ Handled("UpdateProductInfo")
    /\ msg.source = before[1].admin
    /\ Listed
    /\ msg.payload.quantity = None
    /\ msg.payload.price # None
    /\ msg.payload.price[1] # Product.price
    /\ Product.quantity > 0
    /\ MARKET[1].products[msg.payload.name].quantity = Product.quantity
    /\ MARKET[1].products[msg.payload.name].price = msg.payload.price[1]


\* C14: DeleteProduct by admin on a listed name removes that product and no
\* other, and leaves every purchase history as it was, records naming the
\* deleted product included; on an absent name it fails with
\* ThereIsNoSuchName and changes nothing.
C14_DeleteKeepsHistory ==
    (Handled("DeleteProduct") /\ msg.source = before[1].admin)
        => IF Listed
               THEN /\ out.outcome = "reply"
                    /\ out.reply = Ok([type |-> "ProductDeleted", name |-> msg.payload.name])
                    /\ ~contains_key(MARKET[1].products, msg.payload.name)
                    /\ SameProductsExcept({msg.payload.name})
                    /\ SameRest
               ELSE Failed("ThereIsNoSuchName") /\ MARKET = before

C14_Witness ==
    /\ Handled("DeleteProduct")
    /\ out.reply.ok
    /\ ~contains_key(MARKET[1].products, msg.payload.name)
    /\ \E a \in DOMAIN MARKET[1].purchases :
           \E i \in 1 .. Len(MARKET[1].purchases[a]) :
               MARKET[1].purchases[a][i].name = msg.payload.name


\* C15: after any sequence of requests and state queries the Market's admin
\* is the identity that constructed it (init() ran with msg::source() = ADMIN).
C15_AdminFixed == MARKET # None /\ MARKET[1].admin = ADMIN


\* C16: Buy reports the first check that fails, in the order: product absent
\* (ThereIsNoSuchName), quantity 0 (ZeroQuantity), quantity above stock
\* (QuantityExceeded), V < price * quantity (InsufficientValue); the caller's
\* identity plays no part, so Buy never answers NotAdmin.
C16_FirstFailureReported ==
    Handled("Buy") =>
        /\ ~Failed("NotAdmin")
        /\ IF ~Listed THEN Failed("ThereIsNoSuchName")
           ELSE IF msg.payload.quantity = 0 THEN Failed("ZeroQuantity")
           ELSE IF msg.payload.quantity > Product.quantity THEN Failed("QuantityExceeded")
           ELSE IF msg.value < TrueTotal THEN Failed("InsufficientValue")
           ELSE TRUE


\* C17: no transfer of amount 0 is ever issued: a Buy that succeeds with V
\* equal to price * quantity issues no transfer, and a Buy that fails with
\* V = 0 issues none either.
C17_NoZeroTransfer ==
    /\ \A i \in 1 .. Len(out.sent) : out.sent[i].value > 0
    /\ (BoughtOk /\ msg.value = TrueTotal) => out.sent = << >>
    /\ (Handled("Buy") /\ out.outcome = "reply" /\ ~out.reply.ok /\ msg.value = 0)
           => out.sent = << >>

C17_Witness ==
    /\ BoughtOk
    /\ TrueTotal > 0
    /\ msg.value = TrueTotal
    /\ out.sent = << >>

C17_WitnessFailed ==
    /\ Handled("Buy")
    /\ Failed("InsufficientValue")
    /\ msg.value = 0
    /\ out.sent = << >>


\* C18: a successful Buy changes only the stock of the named product and the
\* caller's own history: the product's price, every other product, the set of
\* product names, every other buyer's history, admin and config stay.
C18_BuyFrame ==
    BoughtOk =>
        /\ DOMAIN MARKET[1].products = DOMAIN before[1].products
        /\ MARKET[1].products[msg.payload.name].price = Product.price
        /\ SameProductsExcept({msg.payload.name})
        /\ \A a \in ActorIds \ {msg.source} :
               /\ contains_key(MARKET[1].purchases, a) = contains_key(before[1].purchases, a)
               /\ history(MARKET[1], a) = history(before[1], a)
        /\ MARKET[1].admin = before[1].admin
        /\ MARKET[1].config = before[1].config

C18_Witness ==
    /\ BoughtOk
    /\ Cardinality(DOMAIN before[1].products) = 2
    /\ MARKET[1].products[msg.payload.name].quantity = 0
    /\ MARKET[1].products[msg.payload.name].price = Product.price
    /\ SameProductsExcept({msg.payload.name})

C18_WitnessOtherBuyer ==
    /\ BoughtOk
    /\ \E a \in ActorIds \ {msg.source} :
           /\ Len(history(before[1], a)) > 0
           /\ history(MARKET[1], a) = history(before[1], a)


\* C19: every product in the catalog has a price of at least the existential
\* deposit, also after UpdateProductInfo supplied a new price.
C19_PriceFloorKept ==
    MARKET # None =>
        \A n \in DOMAIN MARKET[1].products :
            MARKET[1].products[n].price >= ExistentialDeposit


\* C20: while a product is neither deleted nor restocked by
\* UpdateProductInfo, its stock at the start equals its stock now plus the
\* quantities of all purchase records for it appended since; every recorded
\* purchase has quantity at least 1 and status PaidFor, and no buyer has an
\* empty history in the map.
C20_StockAccounted ==
    MARKET # None =>
        /\ \A n \in DOMAIN MARKET[1].products :
               interval[n].opening = MARKET[1].products[n].quantity + interval[n].sold
        /\ \A a \in DOMAIN MARKET[1].purchases :
               /\ Len(MARKET[1].purchases[a]) >= 1
               /\ \A i \in 1 .. Len(MARKET[1].purchases[a]) :
                      /\ MARKET[1].purchases[a][i].quantity >= 1
                      /\ MARKET[1].purchases[a][i].status = "PaidFor"

C20_Witness ==
    /\ BoughtOk
    /\ Len(history(MARKET[1], msg.source)) = 2
    /\ interval[msg.payload.name].sold > msg.payload.quantity
    /\ interval[msg.payload.name].opening =
         MARKET[1].products[msg.payload.name].quantity + interval[msg.payload.name].sold

====
